---- MODULE Spec2Model ----
(***************************************************************************)
(* Hunt the Wumpus (src/src/main.rs): the maze built by Maze::new, the     *)
(* player, and the main loop's four handlers (Status::Normal, Quitting,    *)
(* Moving, Shooting), one loop iteration per step.                         *)
(***************************************************************************)
EXTENDS Integers, Sequences, FiniteSets, TLC

-----------------------------------------------------------------------------
(* Program constants *)

MAZE_ROOMS == 20

ROOM_NEIGHBOURS == 3

BATS == 2

PITS == 2

ARROWS == 5

\* WAKE_WUMPUS_PROB: f32 = 0.75, in hundredths
WAKE_WUMPUS_PROB == 75

-----------------------------------------------------------------------------
(* Bounds of the model *)

\* The random generator's words are 0 .. RngRange-1 (the code's are 32 bits wide).
RngRange == 2

\* The longest destination token handed to parse_room on its own (ParseSpec).
MaxLen == 3

-----------------------------------------------------------------------------
(* Option<RoomNum> and Result<RoomNum, ()> *)

None == << >>

Some(x) == << x >>

is_some(o) == o # << >>

unwrap(o) == o[1]

Ok(x) == [ok |-> TRUE, val |-> x]

Err == [ok |-> FALSE, val |-> 0]

\* no call of parse_room in this iteration of the loop
NotParsed == [ok |-> FALSE, val |-> -1]

-----------------------------------------------------------------------------
(* The maze *)

RoomNums == 0 .. (MAZE_ROOMS - 1)

\* a faulty table: the last row leads nowhere but back to room 19
ADJS_dead_end ==
  << <<1, 4, 7>>,    <<0, 2, 9>>,    <<1, 3, 11>>,   <<2, 4, 13>>,
     <<0, 3, 5>>,    <<4, 6, 14>>,   <<5, 7, 16>>,   <<0, 6, 8>>,
     <<7, 9, 17>>,   <<1, 8, 10>>,   <<9, 11, 18>>,  <<2, 10, 12>>,
     <<11, 13, 19>>, <<3, 12, 14>>,  <<5, 13, 15>>,  <<14, 16, 19>>,
     <<6, 15, 17>>,  <<8, 16, 18>>,  <<10, 17, 19>>, <<19, 19, 19>> >>

\* Maze::ADJS; ADJS[i + 1][j + 1] is the code's ADJS[i][j]
ADJS ==
  << <<1, 4, 7>>,    <<0, 2, 9>>,    <<1, 3, 11>>,   <<2, 4, 13>>,
     <<0, 3, 5>>,    <<4, 6, 14>>,   <<5, 7, 16>>,   <<0, 6, 8>>,
     <<7, 9, 17>>,   <<1, 8, 10>>,   <<9, 11, 18>>,  <<2, 10, 12>>,
     <<11, 13, 19>>, <<3, 12, 14>>,  <<5, 13, 15>>,  <<14, 16, 19>>,
     <<6, 15, 17>>,  <<8, 16, 18>>,  <<10, 17, 19>>, <<12, 15, 18>> >>

VARIABLES
  rooms,        \* maze.rooms: room number -> [id, neighbours, dangers]
  player,       \* player: [room, arrows]
  status,       \* status: "Normal", "Quitting", "Moving", "Shooting"
  pc,           \* where main is: "new", "wumpus", "pits", "bats", "player",
                \* "loop" (blocked in read_line), "exit", "panic"
  placed,       \* the loop counter of the running `for _ in 0..PITS/BATS`
  destination,  \* what parse_room returned in the latest loop iteration
  output,       \* the lines the latest loop iteration printed
  rng_draws,    \* how many values the latest step drew from rng
  shots,        \* how many valid shots have been resolved
  token,        \* the destination given to parse_room where it is run on its
                \* own (ParseSpec), the line matched at the command level
                \* (CommandSpec); main reads its input afresh in every iteration
  described     \* the lines of the latest room description printed, where the
                \* screen is followed (ScreenSpec)

vars ==
  << rooms, player, status, pc, placed, destination, output, rng_draws, shots, token,
     described >>

\* Room::new / Room::default
Room_new(id) ==
  [id |-> id, neighbours |-> [j \in 1 .. ROOM_NEIGHBOURS |-> None], dangers |-> << >>]

\* Room::neighbour_ids: the neighbours that are set, in order
neighbour_ids(room) ==
  LET set == SelectSeq(room.neighbours, LAMBDA n : is_some(n))
  IN  [k \in 1 .. Len(set) |-> unwrap(set[k])]

\* Vec::contains
contains(vec, x) == \E k \in 1 .. Len(vec) : vec[k] = x

\* rooms 0, 1, .. 19 in the order of the Vec
RoomSeq == [k \in 1 .. MAZE_ROOMS |-> k - 1]

-----------------------------------------------------------------------------
(* The random generator *)

RngWords == 0 .. (RngRange - 1)

\* the index SliceRandom::choose draws for a slice of `len` items from the
\* generator word w: the high half of the widening product w * len
gen_index(w, len) == (w * len) \div RngRange

\* SliceRandom::choose: None on an empty slice
choose(slice, w) ==
  IF Len(slice) = 0 THEN None ELSE Some(slice[gen_index(w, Len(slice)) + 1])

\* the values gen::<f32>() is sampled at, in hundredths
F32Samples == {74, 75}

\* Maze::rnd_empty_room, before the unwrap
empty_rooms(rs) == SelectSeq(RoomSeq, LAMBDA n : rs[n].dangers = << >>)

\* a faulty rnd_empty_room: the filter on dangers is missing
rnd_any_room(rs, w) == choose(RoomSeq, w)

rnd_empty_room(rs, w) == choose(empty_rooms(rs), w)

\* a faulty filter: every neighbour counts as empty
all_neighbours(rs, room) == neighbour_ids(rs[room])

\* Maze::rnd_empty_neighbour
empty_neighbours(rs, room) ==
  SelectSeq(neighbour_ids(rs[room]), LAMBDA n : rs[n].dangers = << >>)

rnd_empty_neighbour(rs, room, w) == choose(empty_neighbours(rs, room), w)

\* dangers.push
push(rs, room, danger) == [rs EXCEPT ![room].dangers = Append(@, danger)]

\* dangers.retain(|d| d != &danger)
retain_not(rs, room, danger) ==
  [rs EXCEPT ![room].dangers = SelectSeq(@, LAMBDA d : d # danger)]

-----------------------------------------------------------------------------
(* Maze::new and Player::new *)

Init ==
  /\ rooms = [i \in RoomNums |-> Room_new(i)]
  /\ player = [room |-> 0, arrows |-> 0]
  /\ status = "Normal"
  /\ pc = "new"
  /\ placed = 0
  /\ destination = NotParsed
  /\ output = << >>
  /\ rng_draws = 0
  /\ shots = 0
  /\ token = << >>
  /\ described = << >>

\* a faulty wiring loop: room i gets the row of room i + 1
Wire_shifted ==
  /\ pc = "new"
  /\ rooms' = [i \in RoomNums |->
                 [rooms[i] EXCEPT !.neighbours =
                    [j \in 1 .. ROOM_NEIGHBOURS |->
                       Some(ADJS[((i + 1) % MAZE_ROOMS) + 1][j])]]]
  /\ pc' = "wumpus"
  /\ rng_draws' = 0
  /\ UNCHANGED << player, status, placed, destination, output, shots, token >>

\* the wiring loop of Maze::new
Wire ==
  /\ pc = "new"
  /\ rooms' = [i \in RoomNums |->
                 [rooms[i] EXCEPT !.neighbours =
                    [j \in 1 .. ROOM_NEIGHBOURS |-> Some(ADJS[i + 1][j])]]]
  /\ pc' = "wumpus"
  /\ rng_draws' = 0
  /\ UNCHANGED << player, status, placed, destination, output, shots, token >>

\* one placement of Maze::new: a random empty room gets `danger`
Place(danger, next_pc, next_placed) ==
  \E w \in RngWords :
    LET empty_room == rnd_empty_room(rooms, w)
    IN  /\ rng_draws' = 1
        /\ IF is_some(empty_room)
           THEN /\ rooms' = push(rooms, unwrap(empty_room), danger)
                /\ pc' = next_pc
                /\ placed' = next_placed
           ELSE /\ pc' = "panic"
                /\ UNCHANGED << rooms, placed >>
        /\ UNCHANGED << player, status, destination, output, shots, token >>

PlaceWumpus ==
  /\ pc = "wumpus"
  /\ Place("Wumpus", "pits", 0)

PlacePit ==
  /\ pc = "pits"
  /\ IF placed + 1 < PITS THEN Place("Pit", "pits", placed + 1)
                          ELSE Place("Pit", "bats", 0)

PlaceBat ==
  /\ pc = "bats"
  /\ IF placed + 1 < BATS THEN Place("Bat", "bats", placed + 1)
                          ELSE Place("Bat", "player", 0)

-----------------------------------------------------------------------------
(* Text: a str is a sequence of one-character strings *)

DigitChars == << "0", "1", "2", "3", "4", "5", "6", "7", "8", "9" >>

\* the value of each decimal digit
digit_value ==
  [c \in { DigitChars[k] : k \in 1 .. 10 } |-> (CHOOSE k \in 1 .. 10 : DigitChars[k] = c) - 1]

\* char::to_digit(10)
to_digit(c) == IF c \in DOMAIN digit_value THEN Some(digit_value[c]) ELSE None

\* the digit loop of usize::from_str: None at the first char that is no digit.
\* (A value past usize::MAX is an error too; no token of the model is that long.)
RECURSIVE parse_digits(_, _)
parse_digits(digits, acc) ==
  IF digits = << >> THEN Some(acc)
  ELSE LET d == to_digit(Head(digits))
       IN  IF is_some(d) THEN parse_digits(Tail(digits), acc * 10 + unwrap(d))
                         ELSE None

\* str::parse::<usize>: an empty string and a lone sign are errors, one leading
\* "+" is skipped, and "-" is no digit of an unsigned type
parse_usize(src) ==
  IF src = << >> \/ src = << "+" >> \/ src = << "-" >> THEN None
  ELSE parse_digits(IF Head(src) = "+" THEN Tail(src) ELSE src, 0)

\* usize::to_string: decimal, no leading zeros
RECURSIVE to_string(_)
to_string(n) ==
  IF n < 10 THEN << DigitChars[n + 1] >>
  ELSE Append(to_string(n \div 10), DigitChars[(n % 10) + 1])

is_whitespace(c) == c \in {" ", "\t", "\n", "\r"}

\* str::trim
RECURSIVE trim_start(_)
trim_start(s) ==
  IF s # << >> /\ is_whitespace(Head(s)) THEN trim_start(Tail(s)) ELSE s

RECURSIVE trim_end(_)
trim_end(s) ==
  IF s # << >> /\ is_whitespace(s[Len(s)])
  THEN trim_end(SubSeq(s, 1, Len(s) - 1)) ELSE s

trim(s) == trim_end(trim_start(s))

UpperChars == << "H", "Q", "M", "S", "Y", "N", "X" >>

LowerChars == << "h", "q", "m", "s", "y", "n", "x" >>

\* str::to_lowercase, on the letters the model types
to_lowercase(s) ==
  [k \in 1 .. Len(s) |->
     IF \E u \in 1 .. Len(UpperChars) : UpperChars[u] = s[k]
     THEN LowerChars[CHOOSE u \in 1 .. Len(UpperChars) : UpperChars[u] = s[k]]
     ELSE s[k]]

\* a faulty parse_room: any number is accepted, linked or not
parse_room_any_number(rs, dest, current_room) ==
  LET parsed == parse_usize(dest)
  IN  IF is_some(parsed) THEN Ok(unwrap(parsed)) ELSE Err

\* Maze::parse_room
parse_room(rs, dest, current_room) ==
  LET parsed == parse_usize(dest)
  IN  IF is_some(parsed) /\ contains(neighbour_ids(rs[current_room]), unwrap(parsed))
      THEN Ok(unwrap(parsed))
      ELSE Err

-----------------------------------------------------------------------------
(* Room descriptions *)

\* a faulty search: the last neighbour is not looked at
is_danger_nearby_but_last(rs, room, danger) ==
  \E j \in 1 .. ROOM_NEIGHBOURS - 1 :
    contains(rs[unwrap(rs[room].neighbours[j])].dangers, danger)

\* Maze::is_danger_nearby
is_danger_nearby(rs, room, danger) ==
  \E j \in 1 .. ROOM_NEIGHBOURS :
    contains(rs[unwrap(rs[room].neighbours[j])].dangers, danger)

\* Maze::describe_room (the room numbers in the text are left out)
describe_room(rs, room) ==
  << "You are in room #" >>
  \o (IF is_danger_nearby(rs, room, "Pit")
      THEN << "You feel a cold wind blowing from a nearby cavern." >> ELSE << >>)
  \o (IF is_danger_nearby(rs, room, "Bat")
      THEN << "You hear a rustling." >> ELSE << >>)
  \o (IF is_danger_nearby(rs, room, "Wumpus")
      THEN << "You smell something terrible nearby." >> ELSE << >>)
  \o << "Exits go to: " >>

\* the closure `describe` of main
describe(rs, p) ==
  describe_room(rs, p.room) \o << "What do you want to do? (m)ove or (s)hoot?" >>

\* let mut player = Player::new(maze.rnd_empty_room()); describe; prompt
NewPlayer ==
  /\ pc = "player"
  /\ \E w \in RngWords :
       LET start == rnd_empty_room(rooms, w)
       IN  /\ rng_draws' = 1
           /\ IF is_some(start)
              THEN LET p == [room |-> unwrap(start), arrows |-> ARROWS]
                   IN  /\ player' = p
                       /\ output' = describe(rooms, p)
                       /\ pc' = "loop"
              ELSE /\ pc' = "panic"
                   /\ UNCHANGED << player, output >>
  /\ status' = "Normal"
  /\ UNCHANGED << rooms, placed, destination, shots, token >>

-----------------------------------------------------------------------------
(* The main loop: one line is read and handled per step *)

Commands == {"h", "q", "m", "s", "y", "n"}

\* the raw lines read_line may return in the model: the commands, in either
\* case, every room number, and lines that are no command and no exit
Lines ==
     { << c, "\n" >> : c \in Commands }
  \cup { << "M", "\n" >>, << "S", "\n" >>, << "Y", "\n" >> }
  \cup { to_string(r) \o << "\n" >> : r \in RoomNums }
  \cup { << "9", "9", "\n" >>, << "x", "\n" >>, << "\n" >>, << "-", "1", "\n" >>,
         << "+", "4", "\n" >>, << " ", "0", "7", " ", "\n" >> }

\* let input: &str = &input.trim().to_lowercase();
normalise(line) == to_lowercase(trim(line))

\* what `input` can be after a read
Inputs == { normalise(line) : line \in Lines }

\* exit(..) after the println of `lines`
Exit(lines) ==
  /\ pc' = "exit"
  /\ output' = lines

\* `match input` of Status::Quitting: the arm that takes `input`
quitting_match(input) ==
  IF input = << "y" >> THEN "y"
  ELSE IF input = << "n" >> THEN "n"
  ELSE "_"

\* a faulty match: "n" is not told from the rest
quitting_arm_no_resume(arm) ==
  IF arm = "y"
  THEN /\ Exit(<< "Goodbye, braveheart!" >>)
       /\ UNCHANGED status
  ELSE /\ output' = << "That doesn't make any sense" >>
       /\ UNCHANGED << pc, status >>

\* the body of each arm of Status::Quitting
quitting_arm(arm) ==
  IF arm = "y"
  THEN /\ Exit(<< "Goodbye, braveheart!" >>)
       /\ UNCHANGED status
  ELSE IF arm = "n"
  THEN /\ output' = << "Good. the Wumpus is looking for you!" >>
       /\ status' = "Normal"
       /\ UNCHANGED pc
  ELSE /\ output' = << "That doesn't make any sense" >>
       /\ UNCHANGED << pc, status >>

\* one iteration in Status::Quitting that takes the arm `arm`
QuittingStep(arm) ==
  /\ pc = "loop"
  /\ status = "Quitting"
  /\ quitting_arm(arm)
  /\ destination' = NotParsed
  /\ rng_draws' = 0
  /\ UNCHANGED << rooms, player, placed, shots >>

\* the arms the inputs of the model reach
QuittingArms == { quitting_match(input) : input \in Inputs }

\* Status::Quitting. (Every input of one arm has the same effect: each arm is
\* taken once, when some input matches it.)
Quitting ==
  /\ \E arm \in QuittingArms : QuittingStep(arm)
  /\ UNCHANGED token

\* `match input` of the `_` arm of `match status`: the arm that takes `input`
normal_match(input) ==
  IF input = << "h" >> THEN "h"
  ELSE IF input = << "q" >> THEN "q"
  ELSE IF input = << "m" >> THEN "m"
  ELSE IF input = << "s" >> THEN "s"
  ELSE "_"

\* the body of each arm of Status::Normal
normal_arm(arm) ==
  IF arm = "h"
  THEN /\ output' = << "HELP" >>
       /\ UNCHANGED status
  ELSE IF arm = "q"
  THEN /\ output' = << "Are you so easily scared? [y/n]" >>
       /\ status' = "Quitting"
  ELSE IF arm = "m"
  THEN /\ output' = << "Where?" >>
       /\ status' = "Moving"
  ELSE IF arm = "s"
  THEN /\ output' = << "Where?" >>
       /\ status' = "Shooting"
  ELSE /\ output' = << "That doesn't make any sense" >>
       /\ UNCHANGED status

\* one iteration in Status::Normal that takes the arm `arm`
NormalStep(arm) ==
  /\ pc = "loop"
  /\ status = "Normal"
  /\ normal_arm(arm)
  /\ destination' = NotParsed
  /\ rng_draws' = 0
  /\ UNCHANGED << rooms, player, pc, placed, shots >>

\* the arms the inputs of the model reach
NormalArms == { normal_match(input) : input \in Inputs }

\* the `_` arm of `match status`: Status::Normal
Normal ==
  /\ \E arm \in NormalArms : NormalStep(arm)
  /\ UNCHANGED token

\* a faulty else branch: the refusal asks whether to quit
Reject_to_quitting(lines) ==
  /\ output' = << "Are you so easily scared? [y/n]" >>
  /\ rng_draws' = 0
  /\ status' = "Quitting"
  /\ UNCHANGED << rooms, player, pc, placed, shots >>

\* a faulty else branch: the refusal also drops back to Status::Normal
Reject_to_normal(lines) ==
  /\ output' = lines
  /\ rng_draws' = 0
  /\ status' = "Normal"
  /\ UNCHANGED << rooms, player, pc, placed, shots >>

\* the else branch of `if let Ok(room) = maze.parse_room(..)`: only a println
Reject(lines) ==
  /\ output' = lines
  /\ rng_draws' = 0
  /\ UNCHANGED << rooms, player, status, pc, placed, shots >>

\* a faulty chain: the Bat branch is missing
move_branch_no_bat(rs, room) ==
  IF contains(rs[room].dangers, "Wumpus") THEN "Wumpus"
  ELSE IF contains(rs[room].dangers, "Pit") THEN "Pit"
  ELSE "Free"

\* a faulty chain: the Pit branch is missing
move_branch_no_pit(rs, room) ==
  IF contains(rs[room].dangers, "Wumpus") THEN "Wumpus"
  ELSE IF contains(rs[room].dangers, "Bat") THEN "Bat"
  ELSE "Free"

\* which branch of the if / else-if chain of Status::Moving takes `room`
move_branch(rs, room) ==
  IF contains(rs[room].dangers, "Wumpus") THEN "Wumpus"
  ELSE IF contains(rs[room].dangers, "Pit") THEN "Pit"
  ELSE IF contains(rs[room].dangers, "Bat") THEN "Bat"
  ELSE "Free"

\* player.room = ..; status = Status::Normal; describe(&maze, &player);
Arrive(room, said, draws) ==
  LET p == [player EXCEPT !.room = room]
  IN  /\ player' = p
      /\ status' = "Normal"
      /\ output' = said \o describe(rooms, p)
      /\ rng_draws' = draws
      /\ UNCHANGED << rooms, pc, placed, shots >>

\* player.room = maze.rnd_empty_room(), after "The bats whisk you away!"
BatCarry ==
  \E w \in RngWords :
    LET landing == rnd_empty_room(rooms, w)
    IN  IF is_some(landing)
        THEN Arrive(unwrap(landing), << "The bats whisk you away!" >>, 1)
        ELSE /\ pc' = "panic"
             /\ rng_draws' = 1
             /\ UNCHANGED << rooms, player, status, placed, output, shots >>

\* a faulty branch: entering the Wumpus's room sends the Wumpus to an empty
\* room next to it, when there is one, and the player stays alive
MoveTo_wakes(room) ==
  LET branch == move_branch(rooms, room)
  IN  IF branch = "Wumpus" /\ empty_neighbours(rooms, room) # << >>
      THEN \E w \in RngWords :
             LET moved == push(retain_not(rooms, room, "Wumpus"),
                               unwrap(rnd_empty_neighbour(rooms, room, w)),
                               "Wumpus")
                 p == [player EXCEPT !.room = room]
             IN  /\ rooms' = moved
                 /\ player' = p
                 /\ status' = "Normal"
                 /\ output' = describe(moved, p)
                 /\ rng_draws' = 1
                 /\ UNCHANGED << pc, placed, shots >>
      ELSE IF branch \in {"Wumpus", "Pit"}
      THEN /\ Exit(<< "GAME OVER" >>)
           /\ rng_draws' = 0
           /\ UNCHANGED << rooms, player, status, placed, shots >>
      ELSE IF branch = "Bat"
      THEN BatCarry
      ELSE Arrive(room, << >>, 0)

\* the Ok(room) branch of Status::Moving
MoveTo(room) ==
  LET branch == move_branch(rooms, room)
  IN  IF branch = "Wumpus"
      THEN /\ Exit(<< "The wumpus ate you up!", "GAME OVER" >>)
           /\ rng_draws' = 0
           /\ UNCHANGED << rooms, player, status, placed, shots >>
      ELSE IF branch = "Pit"
      THEN /\ Exit(<< "You fall into a bottomless pit!", "GAME OVER" >>)
           /\ rng_draws' = 0
           /\ UNCHANGED << rooms, player, status, placed, shots >>
      ELSE IF branch = "Bat"
      THEN BatCarry
      ELSE Arrive(room, << >>, 0)

\* Status::Moving. (Every input parse_room refuses has the same effect: the
\* else branch is one disjunct, taken when some input is refused.)
Moving ==
  /\ pc = "loop"
  /\ status = "Moving"
  /\ \/ \E input \in Inputs :
          LET parsed == parse_room(rooms, input, player.room)
          IN  /\ parsed.ok
              /\ destination' = parsed
              /\ MoveTo(parsed.val)
     \/ /\ ~ \A input \in Inputs : parse_room(rooms, input, player.room).ok
        /\ destination' = Err
        /\ Reject(<< "There are no tunnels from here to that room. Where do you wanto do go?" >>)
  /\ UNCHANGED token

\* maze.rooms.iter().find(|r| r.dangers.contains(&Danger::Wumpus)), before the unwrap
find_wumpus(rs) ==
  LET found == SelectSeq(RoomSeq, LAMBDA n : contains(rs[n].dangers, "Wumpus"))
  IN  IF found = << >> THEN None ELSE Some(rs[Head(found)].id)

\* gen::<f32>() < WAKE_WUMPUS_PROB
wakes(f) == f < WAKE_WUMPUS_PROB

\* a faulty relocation: the retain without the push
move_wumpus_no_push(rs, wumpus_room, new_wumpus_room) ==
  retain_not(rs, wumpus_room, "Wumpus")

\* a faulty relocation: the push without the retain
move_wumpus_no_retain(rs, wumpus_room, new_wumpus_room) ==
  push(rs, new_wumpus_room, "Wumpus")

\* the retain and the push that take the Wumpus from one room to another
move_wumpus(rs, wumpus_room, new_wumpus_room) ==
  push(retain_not(rs, wumpus_room, "Wumpus"), new_wumpus_room, "Wumpus")

\* a faulty decrement: a shot costs two arrows
spend_two_arrows(arrows) == arrows - 2

\* a faulty decrement: the arrow is not spent
spend_no_arrow(arrows) == arrows

\* player.arrows -= 1
spend_arrow(arrows) == arrows - 1

\* a faulty test: the last arrow does not end the game
never_out_of_arrows(arrows) == arrows < 0

\* if player.arrows == 0
out_of_arrows(arrows) == arrows = 0

\* the end of a missed shot: the arrow is spent, and the game is over with the
\* last one. (usize: a decrement of 0 panics in a debug build.)
SpendArrow(rs, said, draws) ==
  /\ rng_draws' = draws
  /\ shots' = shots + 1
  /\ IF player.arrows = 0
     THEN /\ pc' = "panic"
          /\ UNCHANGED << rooms, player, status, output, placed >>
     ELSE LET left == spend_arrow(player.arrows)
          IN  /\ rooms' = rs
              /\ player' = [player EXCEPT !.arrows = left]
              /\ IF out_of_arrows(left)
                 THEN /\ Exit(said \o << "You ran out of arrows.", "GAME OVER" >>)
                      /\ UNCHANGED status
                 ELSE /\ status' = "Normal"
                      /\ output' = said
                      /\ UNCHANGED pc
              /\ UNCHANGED placed

\* the shot hit the Wumpus
ShootHit ==
  /\ Exit(<< "YOU KILLED THE WUMPUS! GOOD JOB, BUDDY!!!" >>)
  /\ rng_draws' = 0
  /\ shots' = shots + 1
  /\ UNCHANGED << rooms, player, status, placed >>

\* the woken Wumpus looks for an empty neighbour of its room
WakeWumpus ==
  LET wumpus_room == find_wumpus(rooms)
  IN  IF ~ is_some(wumpus_room)
      THEN /\ pc' = "panic"
           /\ rng_draws' = 1
           /\ shots' = shots + 1
           /\ UNCHANGED << rooms, player, status, output, placed >>
      ELSE IF empty_neighbours(rooms, unwrap(wumpus_room)) = << >>
      THEN SpendArrow(rooms, << >>, 1)
      ELSE \E w \in RngWords :
             LET new_wumpus_room ==
                   unwrap(rnd_empty_neighbour(rooms, unwrap(wumpus_room), w))
             IN  IF new_wumpus_room = player.room
                 THEN /\ Exit(<< "You woke up the wumpus and he ate you!", "GAME OVER" >>)
                      /\ rng_draws' = 2
                      /\ shots' = shots + 1
                      /\ UNCHANGED << rooms, player, status, placed >>
                 ELSE SpendArrow(move_wumpus(rooms, unwrap(wumpus_room), new_wumpus_room),
                                 << "You heard a rumbling in a nearby cavern." >>, 2)

\* the shot missed: the wake draw, then the arrow
ShootMiss ==
  \E f \in F32Samples :
    IF wakes(f) THEN WakeWumpus ELSE SpendArrow(rooms, << >>, 1)

\* a faulty branch: the wake draw comes before the test for a hit
ShootAt_after_wake(room) ==
  \E f \in F32Samples :
    IF wakes(f) THEN WakeWumpus
    ELSE IF contains(rooms[room].dangers, "Wumpus") THEN ShootHit
    ELSE SpendArrow(rooms, << >>, 1)

\* the Ok(room) branch of Status::Shooting
ShootAt(room) ==
  IF contains(rooms[room].dangers, "Wumpus") THEN ShootHit ELSE ShootMiss

\* Status::Shooting
Shooting ==
  /\ pc = "loop"
  /\ status = "Shooting"
  /\ \/ \E input \in Inputs :
          LET parsed == parse_room(rooms, input, player.room)
          IN  /\ parsed.ok
              /\ destination' = parsed
              /\ ShootAt(parsed.val)
     \/ /\ ~ \A input \in Inputs : parse_room(rooms, input, player.room).ok
        /\ destination' = Err
        /\ Reject(<< "There are no tunnels from here to that room. Where do you wanto do shoot?" >>)
  /\ UNCHANGED token

Next ==
  \/ Wire /\ UNCHANGED described
  \/ PlaceWumpus /\ UNCHANGED described
  \/ PlacePit /\ UNCHANGED described
  \/ PlaceBat /\ UNCHANGED described
  \/ NewPlayer /\ UNCHANGED described
  \/ Quitting /\ UNCHANGED described
  \/ Normal /\ UNCHANGED described
  \/ Moving /\ UNCHANGED described
  \/ Shooting /\ UNCHANGED described

Spec == Init /\ [][Next]_vars

-----------------------------------------------------------------------------
(* main up to its loop: Maze::new, Player::new, the first description *)

BuildNext ==
  \/ Wire /\ UNCHANGED described
  \/ PlaceWumpus /\ UNCHANGED described
  \/ PlacePit /\ UNCHANGED described
  \/ PlaceBat /\ UNCHANGED described
  \/ NewPlayer /\ UNCHANGED described

BuildSpec == Init /\ [][BuildNext]_vars

-----------------------------------------------------------------------------
(* The command level of the loop, Status::Normal and Status::Quitting, from  *)
(* every game the construction makes; `token` keeps the line each iteration  *)
(* matched (trimmed and lower-cased, as `input` is)                          *)

NormalRead ==
  \E input \in Inputs :
    /\ NormalStep(normal_match(input))
    /\ token' = input

QuittingRead ==
  \E input \in Inputs :
    /\ QuittingStep(quitting_match(input))
    /\ token' = input

CommandNext ==
  \/ Wire /\ UNCHANGED described
  \/ PlaceWumpus /\ UNCHANGED described
  \/ PlacePit /\ UNCHANGED described
  \/ PlaceBat /\ UNCHANGED described
  \/ NewPlayer /\ UNCHANGED described
  \/ NormalRead /\ UNCHANGED described
  \/ QuittingRead /\ UNCHANGED described

CommandSpec == Init /\ [][CommandNext]_vars

-----------------------------------------------------------------------------
(* The game, started also from a maze Maze::new makes when its five draws    *)
(* put the Pits and a Bat on the three rooms next to the Wumpus: the Wumpus  *)
(* has no empty neighbour. (The words of RngWords never pick such rooms.)    *)

BoxedMaze ==
  LET wired == [i \in RoomNums |->
                  [Room_new(i) EXCEPT !.neighbours =
                     [j \in 1 .. ROOM_NEIGHBOURS |-> Some(ADJS[i + 1][j])]]]
      wumpus == push(wired, 0, "Wumpus")
      pit1 == push(wumpus, ADJS[1][1], "Pit")
      pit2 == push(pit1, ADJS[1][2], "Pit")
      bat1 == push(pit2, ADJS[1][3], "Bat")
  IN  push(bat1, 12, "Bat")

\* the state Maze::new returns in, with that maze
BoxedInit ==
  /\ rooms = BoxedMaze
  /\ player = [room |-> 0, arrows |-> 0]
  /\ status = "Normal"
  /\ pc = "player"
  /\ placed = 0
  /\ destination = NotParsed
  /\ output = << >>
  /\ rng_draws = 1
  /\ shots = 0
  /\ token = << >>
  /\ described = << >>

ShootSpec == (Init \/ BoxedInit) /\ [][Next]_vars

-----------------------------------------------------------------------------
(* The game with the player's screen followed: `described` keeps the lines   *)
(* of the latest room description, which only the closure `describe` prints  *)

\* the lines of `describe`, from where the room description starts
description_in(lines) ==
  IF lines # << >> /\ Head(lines) = "The bats whisk you away!"
  THEN Tail(lines)
  ELSE lines

\* whether the step printed a room description
describes(lines) ==
  description_in(lines) # << >> /\ Head(description_in(lines)) = "You are in room #"

Screen ==
  described' = IF describes(output') THEN description_in(output') ELSE described

ScreenNext ==
  \/ Wire /\ Screen
  \/ PlaceWumpus /\ Screen
  \/ PlacePit /\ Screen
  \/ PlaceBat /\ Screen
  \/ NewPlayer /\ Screen
  \/ Quitting /\ Screen
  \/ Normal /\ Screen
  \/ Moving /\ Screen
  \/ Shooting /\ Screen

ScreenSpec == Init /\ [][ScreenNext]_vars

-----------------------------------------------------------------------------
(* Maze::parse_room on its own: every token of up to MaxLen characters, from *)
(* every room of the wired maze                                              *)

TokenChars == {"0", "1", "4", "7", "9", "+", "-", "x"}

Tokens == UNION { [1 .. n -> TokenChars] : n \in 0 .. MaxLen }

ParseInit ==
  /\ rooms = [i \in RoomNums |-> Room_new(i)]
  /\ player \in { [room |-> r, arrows |-> 0] : r \in RoomNums }
  /\ token \in Tokens
  /\ described = << >>
  /\ status = "Normal"
  /\ pc = "new"
  /\ placed = 0
  /\ destination = NotParsed
  /\ output = << >>
  /\ rng_draws = 0
  /\ shots = 0

\* maze.parse_room(token, player.room)
ParseRoom ==
  /\ pc = "wumpus"
  /\ destination' = parse_room(rooms, token, player.room)
  /\ pc' = "parsed"
  /\ UNCHANGED << rooms, player, status, placed, output, rng_draws, shots, token >>

ParseNext ==
  \/ Wire /\ UNCHANGED described
  \/ ParseRoom /\ UNCHANGED described

ParseSpec == ParseInit /\ [][ParseNext]_vars

-----------------------------------------------------------------------------
(* Properties *)

\* Maze::new has returned
Built == pc \notin {"new", "wumpus", "pits", "bats"}

holding(danger) == { r \in RoomNums : contains(rooms[r].dangers, danger) }

\* C1: from the end of Maze::new on, through every turn, exactly one room
\* holds the Wumpus, exactly two hold a Pit, exactly two hold a Bat, and no
\* room holds more than one marker.
C1_Placement ==
  Built =>
    /\ Cardinality(holding("Wumpus")) = 1
    /\ Cardinality(holding("Pit")) = PITS
    /\ Cardinality(holding("Bat")) = BATS
    /\ \A r \in RoomNums : Len(rooms[r].dangers) <= 1

\* a shot has woken the Wumpus and it has moved to another room
C1_Witness ==
  /\ pc = "loop"
  /\ shots >= 2
  /\ output = << "You heard a rumbling in a nearby cavern." >>

\* the neighbours Maze::new has set for a room
neighbour_set(r) ==
  { unwrap(rooms[r].neighbours[j]) :
      j \in { k \in 1 .. ROOM_NEIGHBOURS : is_some(rooms[r].neighbours[k]) } }

\* C2: each of the 20 rooms has exactly 3 distinct neighbours, all of them
\* rooms 0..19, none the room itself, and B is a neighbour of A iff A is one of B.
C2_Adjacency ==
  pc # "new" =>
    /\ DOMAIN rooms = 0 .. 19
    /\ \A a \in RoomNums :
         /\ \A j \in 1 .. ROOM_NEIGHBOURS : is_some(rooms[a].neighbours[j])
         /\ Cardinality(neighbour_set(a)) = 3
         /\ neighbour_set(a) \subseteq 0 .. 19
         /\ a \notin neighbour_set(a)
         /\ \A b \in RoomNums : b \in neighbour_set(a) <=> a \in neighbour_set(b)

\* the maze is wired and filled
C2_Witness ==
  /\ pc = "player"
  /\ neighbour_set(0) = {1, 4, 7}
  /\ neighbour_set(19) = {12, 15, 18}

\* the rooms a walk through the tunnels reaches from the rooms of `seen`
RECURSIVE reachable(_)
reachable(seen) ==
  LET more == seen \cup UNION { neighbour_set(r) : r \in seen }
  IN  IF more = seen THEN seen ELSE reachable(more)

\* C3: the graph Maze::new builds is connected: from every room a walk
\* through the tunnels reaches every room.
C3_Connected ==
  pc # "new" => \A i \in RoomNums : reachable({i}) = RoomNums

\* the maze is built, and room 19 is reached from room 0 though no tunnel joins them
C3_Witness ==
  /\ pc = "player"
  /\ 19 \notin neighbour_set(0)
  /\ 19 \in reachable({0})

\* the decimal digits
Digits == { DigitChars[k] : k \in 1 .. 10 }

\* a decimal numeral: digits, after at most one "+"
numeral_digits(tok) == IF tok # << >> /\ Head(tok) = "+" THEN Tail(tok) ELSE tok

is_numeral(tok) ==
  /\ numeral_digits(tok) # << >>
  /\ \A k \in 1 .. Len(numeral_digits(tok)) : numeral_digits(tok)[k] \in Digits

\* the number a digit string denotes, from its last digit
RECURSIVE digits_value(_)
digits_value(ds) ==
  IF ds = << >> THEN 0
  ELSE 10 * digits_value(SubSeq(ds, 1, Len(ds) - 1)) + digit_value[ds[Len(ds)]]

\* C4: parse_room succeeds iff the token is the numeral of a non-negative
\* integer that is one of the 3 neighbours (in ADJS) of the source room; it then
\* returns that integer; any other token, and the source room itself, is Err.
C4_ParseRoom ==
  pc = "parsed" =>
    LET adjacent == { ADJS[player.room + 1][j] : j \in 1 .. 3 }
        valid == is_numeral(token) /\ digits_value(numeral_digits(token)) \in adjacent
    IN  /\ destination.ok <=> valid
        /\ valid => destination = Ok(digits_value(numeral_digits(token)))
        /\ ~ valid => destination = Err
        /\ destination.ok => destination.val # player.room

\* a two-digit neighbour is accepted
C4_Witness ==
  /\ pc = "parsed"
  /\ player.room = 12
  /\ token = << "1", "9" >>
  /\ destination = Ok(19)

\* a loop iteration that handles a valid destination in Status `st`: the step
\* leaves a state where main waits in `st`, and parse_room returned Ok
ValidTarget(st) ==
  /\ pc = "loop"
  /\ status = st
  /\ destination'.ok

\* the room the step's input named holds `danger`
TargetHolds(danger) == contains(rooms[destination'.val].dangers, danger)

Lost(lines) ==
  /\ pc' = "exit"
  /\ output' = lines

C6_BatMove ==
  [][ (ValidTarget("Moving") /\ TargetHolds("Bat"))
      => /\ pc' = "loop"
         /\ status' = "Normal"
         /\ rooms' = rooms
         /\ rooms'[player'.room].dangers = << >>
         /\ player'.room # destination'.val
         /\ player'.arrows = player.arrows
    ]_vars

\* the bats have carried the player
C6_Witness ==
  /\ pc = "loop"
  /\ status = "Normal"
  /\ destination.ok
  /\ contains(rooms[destination.val].dangers, "Bat")
  /\ output # << >>
  /\ Head(output) = "The bats whisk you away!"

\* C7: a valid shot at the room that holds the Wumpus wins at once: nothing is
\* drawn from the generator, the Wumpus stays, no arrow is spent.
C7_HitWins ==
  [][ (ValidTarget("Shooting") /\ TargetHolds("Wumpus"))
      => /\ pc' = "exit"
         /\ output' = << "YOU KILLED THE WUMPUS! GOOD JOB, BUDDY!!!" >>
         /\ rng_draws' = 0
         /\ rooms' = rooms
         /\ player' = player
    ]_vars

\* the Wumpus was shot after an earlier arrow had missed
C7_Witness ==
  /\ pc = "exit"
  /\ shots >= 2
  /\ player.arrows < ARROWS
  /\ output = << "YOU KILLED THE WUMPUS! GOOD JOB, BUDDY!!!" >>

EatenAwake == Lost(<< "You woke up the wumpus and he ate you!", "GAME OVER" >>)

\* C8, as claimed: every valid shot at a room without the Wumpus takes exactly
\* one arrow, also when the woken Wumpus moves into the player's room.
C8_Claimed ==
  [][ (ValidTarget("Shooting") /\ ~ TargetHolds("Wumpus"))
      => player'.arrows = player.arrows - 1
    ]_vars

\* C8, amended: every valid shot at a room without the Wumpus takes exactly one
\* arrow, unless the woken Wumpus picks the player's room: then the game is lost
\* at once and the arrow count stays as it was.
C8_MissSpendsArrow ==
  [][ (ValidTarget("Shooting") /\ ~ TargetHolds("Wumpus"))
      => IF EatenAwake
         THEN /\ player'.arrows = player.arrows
              /\ contains(empty_neighbours(rooms, unwrap(find_wumpus(rooms))),
                          player.room)
         ELSE player'.arrows = player.arrows - 1
    ]_vars

\* a miss has woken the Wumpus, it has moved, and the arrow is gone
C8_Witness ==
  /\ pc = "loop"
  /\ shots = 1
  /\ player.arrows = ARROWS - 1
  /\ output = << "You heard a rumbling in a nearby cavern." >>

OutOfArrows ==
  /\ pc' = "exit"
  /\ output'[Len(output') - 1] = "You ran out of arrows."
  /\ player'.arrows = 0

\* C9, as claimed: the 5th valid shot that misses ends the game with "out of
\* arrows" and an arrow count of 0, and no game has more than 5 resolved shots.
C9_Claimed ==
  /\ [](shots <= 5)
  /\ [][ (ValidTarget("Shooting") /\ ~ TargetHolds("Wumpus") /\ shots = 4)
         => OutOfArrows
       ]_vars

\* C9, amended: the 5th valid shot that misses ends the game: with "out of
\* arrows" and an arrow count of 0, unless the Wumpus it woke moves into the
\* player's room, which ends the game with the last arrow unspent; and no game
\* has more than 5 resolved shots.
C9_FifthShot ==
  /\ [](shots <= 5)
  /\ [][ (ValidTarget("Shooting") /\ ~ TargetHolds("Wumpus") /\ shots = 4)
         => \/ OutOfArrows
            \/ EatenAwake /\ player'.arrows = 1
       ]_vars

\* the fifth arrow has missed
C9_Witness ==
  /\ pc = "exit"
  /\ shots = 5
  /\ player.arrows = 0
  /\ output[Len(output) - 1] = "You ran out of arrows."

\* C10: while main waits for the target of a move or of a shot, an input that
\* parse_room refuses changes nothing: the maze, the player's room and arrows
\* and the Status stay, nothing is drawn from the generator, the game goes on.
C10_Refusal ==
  [][ (pc = "loop" /\ status \in {"Moving", "Shooting"} /\ destination' = Err)
      => /\ rooms' = rooms
         /\ player' = player
         /\ status' = status
         /\ pc' = "loop"
         /\ rng_draws' = 0
         /\ shots' = shots
    ]_vars

\* a target was refused after an arrow had been shot, and main still waits for one
C10_Witness ==
  /\ pc = "loop"
  /\ status = "Shooting"
  /\ destination = Err
  /\ shots >= 1

-----------------------------------------------------------------------------
\* C11: the game starts waiting for a command; from there "m" leads to the
\* move-target state, "s" to the shoot-target state, "q" to the quit
\* confirmation and "h" or any other line back to waiting for a command; at
\* the quit confirmation "y" ends the game as Quit, "n" returns to waiting
\* for a command and any other line stays; none of these steps changes the
\* maze or the player (room, arrows), and at this level the game ends only
\* through "y" at the quit confirmation.
IdleTable(line) ==
  CASE line = << "m" >> -> "Moving"
    [] line = << "s" >> -> "Shooting"
    [] line = << "q" >> -> "Quitting"
    [] OTHER -> "Normal"

Quit == pc = "exit" /\ output = << "Goodbye, braveheart!" >>

C11_Commands ==
  /\ [][pc = "player" => pc' = "loop" /\ status' = "Normal"]_vars
  /\ [][pc = "loop" /\ status = "Normal"
          => /\ status' = IdleTable(token')
             /\ pc' = "loop"
             /\ rooms' = rooms
             /\ player' = player]_vars
  /\ [][pc = "loop" /\ status = "Quitting"
          => /\ token' = << "y" >> => Quit'
             /\ token' = << "n" >> => pc' = "loop" /\ status' = "Normal"
             /\ token' \notin {<< "y" >>, << "n" >>}
                  => pc' = "loop" /\ status' = "Quitting"
             /\ rooms' = rooms
             /\ player' = player]_vars
  /\ [][pc = "loop" /\ pc' # "loop"
          => status = "Quitting" /\ token' = << "y" >> /\ Quit']_vars

\* the player confirmed the quit
C11_Witness ==
  /\ Quit
  /\ status = "Quitting"
  /\ token = << "y" >>
  /\ player.arrows = ARROWS

-----------------------------------------------------------------------------
\* C12: the player starts with 5 arrows and the count never increases; while
\* the game goes on it is between 1 and 5; it is never decremented below 0
\* (the decrement of a count of 0 is never reached), and the game is over in
\* every state where it is 0; the player's room is a room of the maze, 0..19,
\* in every state.
HasPlayer == pc \in {"loop", "exit", "panic"}

C12_Arrows ==
  /\ [][pc = "player" => player'.arrows = ARROWS]_vars
  /\ [][HasPlayer => player'.arrows <= player.arrows]_vars
  /\ [](pc = "loop" => player.arrows \in 1 .. ARROWS)
  /\ [](HasPlayer => player.arrows \in 0 .. ARROWS)
  /\ [](pc # "panic")
  /\ [](HasPlayer /\ player.arrows = 0 => pc = "exit")
  /\ [](player.room \in RoomNums)

\* the last arrow is gone and the game is over
C12_Witness ==
  /\ pc = "exit"
  /\ player.arrows = 0
  /\ shots = ARROWS

-----------------------------------------------------------------------------
\* C13: the player's entering the Wumpus's room wakes the Wumpus, which then
\* moves one room or stays still, and the player is eaten only if after that
\* the Wumpus is in the player's room: so whenever the player, asked where to
\* move, has the Wumpus in an adjacent room and the Wumpus has an empty room
\* next to it to move to, entering the Wumpus's room can leave the player
\* alive in it, the Wumpus having moved on.
WumpusCanLeave(room) ==
  /\ contains(rooms[room].dangers, "Wumpus")
  /\ empty_neighbours(rooms, room) # << >>

C13_Claimed ==
  pc = "loop" /\ status = "Moving"
    => \A room \in neighbour_set(player.room) :
         WumpusCanLeave(room)
           => ENABLED ( /\ Moving
                        /\ destination'.ok
                        /\ destination'.val = room
                        /\ pc' = "loop"
                        /\ player'.room = room
                        /\ ~ contains(rooms'[room].dangers, "Wumpus") )

-----------------------------------------------------------------------------
\* C14: a valid shot at a room that does not hold the Wumpus moves the Wumpus
\* at most one tunnel. When only the wake draw was taken (it failed, or no
\* room next to the Wumpus was empty) the maze is as before; when the
\* neighbour drawn for the Wumpus is the player's room the game ends in a
\* loss, the Wumpus not moved; otherwise the Wumpus has left its room for a
\* neighbour of it that held no Pit, no Bat and not the player.
\* the rooms next to `room` in the dodecahedron
NextTo(room) == { ADJS[room + 1][j] : j \in 1 .. ROOM_NEIGHBOURS }

\* the room that holds the Wumpus
wumpus_in(rs) == CHOOSE r \in RoomNums : contains(rs[r].dangers, "Wumpus")

C14_WumpusStep ==
  [][ValidTarget("Shooting") /\ ~ TargetHolds("Wumpus")
       => IF rng_draws' = 1
          THEN rooms' = rooms
          ELSE IF EatenAwake
          THEN /\ rooms' = rooms
               /\ rng_draws' = 2
               /\ player.room \in NextTo(wumpus_in(rooms))
               /\ rooms[player.room].dangers = << >>
          ELSE LET old == wumpus_in(rooms)
                   new == wumpus_in(rooms')
               IN  /\ new \in NextTo(old)
                   /\ rooms[new].dangers = << >>
                   /\ new # player.room
                   /\ ~ contains(rooms'[old].dangers, "Wumpus")
                   /\ rng_draws' = 2
                   /\ pc' \in {"loop", "exit"}]_vars

\* the woken Wumpus has moved to the next room
C14_Witness ==
  /\ pc = "loop"
  /\ shots >= 1
  /\ destination.ok
  /\ rng_draws = 2
  /\ output = << "You heard a rumbling in a nearby cavern." >>
  /\ ~ contains(rooms[destination.val].dangers, "Wumpus")

\* a shot in the maze where the Wumpus has no empty neighbour
C14_Boxed ==
  /\ pc = "loop"
  /\ shots >= 1
  /\ empty_neighbours(rooms, wumpus_in(rooms)) = << >>

-----------------------------------------------------------------------------
-----------------------------------------------------------------------------
\* C16: is_danger_nearby(room, kind) is true exactly when at least one of the
\* three rooms next to `room` in the dodecahedron holds a danger of that kind,
\* for every room and kind in every maze the game goes through; and the
\* description printed after a move that does not end the game, a relocation
\* by bats included, has the Pit, Bat or Wumpus warning exactly when that
\* holds for the room the player is in afterwards.
Near(rs, room, danger) ==
  \E n \in NextTo(room) : \E k \in DOMAIN rs[n].dangers : rs[n].dangers[k] = danger

Warning(danger) ==
  CASE danger = "Pit" -> "You feel a cold wind blowing from a nearby cavern."
    [] danger = "Bat" -> "You hear a rustling."
    [] danger = "Wumpus" -> "You smell something terrible nearby."

Said(lines, line) == \E k \in DOMAIN lines : lines[k] = line

\* the maze is as Maze::new or a relocation of the Wumpus has just left it
NewMaze ==
  \/ pc = "player"
  \/ Said(output, "You heard a rumbling in a nearby cavern.")

C16_Warnings ==
  /\ [](NewMaze
          => \A room \in RoomNums : \A danger \in {"Pit", "Bat", "Wumpus"} :
               is_danger_nearby(rooms, room, danger) <=> Near(rooms, room, danger))
  /\ [][ValidTarget("Moving") /\ pc' = "loop"
          => /\ Said(output', "You are in room #")
             /\ \A danger \in {"Pit", "Bat", "Wumpus"} :
                  Said(output', Warning(danger))
                    <=> Near(rooms', player'.room, danger)]_vars

\* the bats have dropped the player next to the Wumpus, and the description
\* says so
C16_Witness ==
  /\ pc = "loop"
  /\ status = "Normal"
  /\ destination.ok
  /\ Len(output) >= 2
  /\ output[1] = "The bats whisk you away!"
  /\ Said(output, Warning("Wumpus"))
  /\ ~ Said(output, Warning("Pit"))
  /\ wumpus_in(rooms) \in NextTo(player.room)

-----------------------------------------------------------------------------
\* C17: whenever the game waits for a command and a room next to the player's
\* holds the Wumpus, a Pit or a Bat, the latest room description printed had
\* the warning for it.
C17_Claimed ==
  pc = "loop" /\ status = "Normal"
    => \A danger \in {"Pit", "Bat", "Wumpus"} :
         Near(rooms, player.room, danger) => Said(described, Warning(danger))

-----------------------------------------------------------------------------
\* C18: while the game goes on, from its start through every turn, the room
\* the player is in holds no Pit, no Bat and not the Wumpus.
C18_SafeRoom ==
  pc = "loop" => rooms[player.room].dangers = << >>

\* a second shot has sent the Wumpus into a room next to the player's, which
\* is next to a Bat too
C18_Witness ==
  /\ pc = "loop"
  /\ status = "Normal"
  /\ output = << "You heard a rumbling in a nearby cavern." >>
  /\ Near(rooms, player.room, "Wumpus")
  /\ Near(rooms, player.room, "Bat")
  /\ shots >= 2

-----------------------------------------------------------------------------
\* C19: once the game asks where to move (resp. where to shoot) it leaves that
\* state only in a turn that resolves a valid move (resp. shot) to a room next
\* to the player's; no line, the command letters included, takes it back to
\* waiting for a command or to the quit confirmation or ends the game as
\* Quit; and every turn that leaves the shoot-target state ends the game or
\* takes exactly one arrow.
Leaves(st) ==
  /\ pc = "loop"
  /\ status = st
  /\ pc' # "loop" \/ status' # st

C19_TargetStates ==
  /\ [][Leaves("Moving")
          => /\ destination'.ok
             /\ destination'.val \in NextTo(player.room)]_vars
  /\ [][Leaves("Shooting")
          => /\ destination'.ok
             /\ destination'.val \in NextTo(player.room)
             /\ \/ pc' = "exit"
                \/ /\ pc' = "loop"
                   /\ status' = "Normal"
                   /\ player'.arrows = player.arrows - 1]_vars
  /\ [][pc = "loop" /\ status \in {"Moving", "Shooting"}
          => /\ status' # "Quitting"
             /\ ~ Quit'
             /\ ~ destination'.ok => UNCHANGED << rooms, player, status, pc >>]_vars
  /\ [](pc = "loop" /\ status \in {"Moving", "Shooting"}
          => \A c \in Commands : ~ parse_room(rooms, << c >>, player.room).ok)

\* a shot that did not wake the Wumpus has taken an arrow, and the game waits
\* for a command again
C19_Witness ==
  /\ pc = "loop"
  /\ status = "Normal"
  /\ destination.ok
  /\ shots = 1
  /\ rng_draws = 1
  /\ output = << >>
  /\ player.arrows = ARROWS - 1

-----------------------------------------------------------------------------
\* C20: every call of rnd_empty_room (the five placements, the player's start,
\* every relocation by bats) finds a room to return, and the lookup of the
\* Wumpus's room before its relocation finds one, so neither unwrap fails:
\* no step ends in a panic; the pool shrinks by one room with each placement
\* of Maze::new, and from its end on exactly 15 rooms hold no danger and
\* exactly one room holds the Wumpus.
Placements ==
  CASE pc = "wumpus" -> 0
    [] pc = "pits" -> 1 + placed
    [] pc = "bats" -> 1 + PITS + placed
    [] OTHER -> 1 + PITS + BATS

C20_NoFailedUnwrap ==
  /\ pc # "panic"
  /\ pc # "new" => Len(empty_rooms(rooms)) = MAZE_ROOMS - Placements
  /\ Built => /\ Len(empty_rooms(rooms)) = 15
              /\ is_some(find_wumpus(rooms))

\* the bats have carried the player after a shot had moved the Wumpus
C20_Witness ==
  /\ pc = "loop"
  /\ shots >= 1
  /\ destination.ok
  /\ output # << >>
  /\ Head(output) = "The bats whisk you away!"
  /\ rng_draws = 1
  /\ player.arrows < ARROWS

=============================================================================
